---- MODULE Spec2Model ----
(***************************************************************************)
(* A model of the notebook gemma-2b_FT.ipynb: the cells run top to bottom, *)
(* one action per cell (the training loop one action per step), and the    *)
(* two functions the notebook depends on for its data and its adapter      *)
(* targets: the two train_test_split calls and find_all_linear_names.      *)
(*                                                                         *)
(* Rows of the data frame are their index 1..N.  A Python name that is not *)
(* yet bound holds <<>> (a partition is never empty once it is bound) or,   *)
(* for a model handle, 0.                                                  *)
(***************************************************************************)
EXTENDS Integers, Sequences, FiniteSets, TLC

\* ------------------------------------------------------------ bounds

\* Largest number of items in the dataset file, for the whole pipeline.
MaxRows == 9
\* Largest number of items when the split cell is run on its own.
MaxSplitRows == 16
\* Largest number of named sublayers when the finder is run on its own.
MaxModules == 3
\* How many times the split cell is re-executed on the same data frame.
MaxReruns == 1
\* Up to this many positions a shuffle may return any permutation.
MaxFullShuffle == 4

\* ------------------------------------------------- program constants

max_steps == 250
logging_steps == 10
eval_steps == 10
num_train_epochs == 1
per_device_train_batch_size == 8

\* random_state=42, as a 0-or-1-element sequence: <<>> is random_state=None.
random_state_none == <<>>
random_state == <<42>>

\* test_size as a fraction <<numerator, denominator>>: 0.2 and 0.5.
\* (math.ceil of the double product 0.2*n equals the exact ceiling of n/5
\* for every n below 2,000,000, and 0.5*n is exact.)
test_size_tenth == <<1, 10>>
test_size_first == <<1, 5>>
test_size_second == <<1, 2>>

model_id == "google/gemma-2b-it"
merge_base_id_pretrained == "google/gemma-2b"
merge_base_id == "google/gemma-2b-it"
new_model == "Gemma-2b_interview-FT"
merge_adapter_dir == "Gemma-2b_interview-FT"

\* ------------------------------------------------------------ helpers

Range(s) == {s[i] : i \in DOMAIN s}

NoDuplicates(s) == \A i, j \in DOMAIN s : i # j => s[i] # s[j]

\* math.ceil(n * f) for the fraction f
CeilMul(n, f) == (n * f[1] + f[2] - 1) \div f[2]

\* ------------------------------------------------ train_test_split

\* The permutations a shuffle of n positions is drawn from: every permutation
\* of 1..n up to MaxFullShuffle positions, and beyond that the rotations of
\* 1..n and of its reversal.
Shuffles(n) ==
    IF n <= MaxFullShuffle
    THEN {p \in [1..n -> 1..n] : \A i, j \in 1..n : i # j => p[i] # p[j]}
    ELSE {[i \in 1..n |-> ((i - 1 + k) % n) + 1] : k \in 0..(n - 1)}
         \cup {[i \in 1..n |-> ((n - i + k) % n) + 1] : k \in 0..(n - 1)}

\* RandomState(seed).permutation(n): a generator seeded with the same seed
\* returns the same permutation of n positions every time.  table records the
\* permutations already returned, keyed by <<seed, n>>; an unseeded generator
\* (random_state=None) may return any permutation on every call.
\* The result is the set of possible <<permutation, table afterwards>>.
Draws(rs, n, table) ==
    IF rs = <<>>
    THEN {<<p, table>> : p \in Shuffles(n)}
    ELSE LET key == <<rs[1], n>> IN
         IF key \in DOMAIN table
         THEN {<<table[key], table>>}
         ELSE {<<p, [k \in DOMAIN table \cup {key} |->
                        IF k = key THEN p ELSE table[k]]>> : p \in Shuffles(n)}

\* _validate_shuffle_split: n_test = ceil(test_size * n), n_train = n - n_test,
\* ValueError when the train set would be empty.
NTest(n, test_size) == CeilMul(n, test_size)
NTrain(n, test_size) == n - NTest(n, test_size)
SplitRaises(n, test_size) == NTrain(n, test_size) = 0

\* ShuffleSplit._iter_indices: test = permutation[:n_test],
\* train = permutation[n_test:n_test + n_train]; the rows are taken in that order.
TestStartOffByOne(df, test_size) == NTest(Len(df), test_size) - 1
TestStart(df, test_size) == NTest(Len(df), test_size)

TrainPart(df, test_size, perm) ==
    [i \in 1..NTrain(Len(df), test_size) |-> df[perm[TestStart(df, test_size) + i]]]
TestPart(df, test_size, perm) ==
    [i \in 1..NTest(Len(df), test_size) |-> df[perm[i]]]

\* The split cell: train_data, temp_data = split(main_df, 0.2);
\* eval_data, test_data = split(temp_data, 0.5).  Each outcome says which
\* names were bound and whether the cell raised.
SplitCell(df, table) ==
    IF SplitRaises(Len(df), test_size_first)
    THEN {[raised |-> TRUE, train_data |-> <<>>, temp_data |-> <<>>,
           eval_data |-> <<>>, test_data |-> <<>>, table |-> table]}
    ELSE UNION {
        LET train == TrainPart(df, test_size_first, d1[1])
            temp == TestPart(df, test_size_first, d1[1])
        IN  IF SplitRaises(Len(temp), test_size_second)
            THEN {[raised |-> TRUE, train_data |-> train, temp_data |-> temp,
                   eval_data |-> <<>>, test_data |-> <<>>, table |-> d1[2]]}
            ELSE {[raised |-> FALSE, train_data |-> train, temp_data |-> temp,
                   eval_data |-> TrainPart(temp, test_size_second, d2[1]),
                   test_data |-> TestPart(temp, test_size_second, d2[1]),
                   table |-> d2[2]]
                  : d2 \in Draws(random_state, Len(temp), d1[2])}
        : d1 \in Draws(random_state, Len(df), table)}

\* One record of a Dataset built from a frame whose index is not a plain
\* range (any frame train_test_split returns): the frame's columns and the
\* row's index, kept as the column __index_level_0__.  txt gives the
\* prompt/completion text of each row of the data frame.
RecordWithoutIndex(row, txt) == [text |-> txt[row]]
Record(row, txt) == [index_level_0 |-> row, text |-> txt[row]]

\* Dataset.from_pandas: one record per row of the frame, in the frame's order.
FromPandas(df, txt) == [i \in 1..Len(df) |-> Record(df[i], txt)]

\* --------------------------------------------- find_all_linear_names

\* A sublayer name is a sequence of tokens, "." or a dot-free piece of text.
\* name.split('.'): the pieces between the dots, empty pieces included.
RECURSIVE SplitFrom(_, _, _, _)
SplitFrom(name, i, acc, cur) ==
    IF i > Len(name) THEN Append(acc, cur)
    ELSE IF name[i] = "." THEN SplitFrom(name, i + 1, Append(acc, cur), "")
    ELSE SplitFrom(name, i + 1, acc, cur \o name[i])

Split(name) == SplitFrom(name, 1, <<>>, "")

\* isinstance(module, bnb.nn.Linear4bit)
IsLinear4bit(module) == module = "Linear4bit"

\* names[0] if len(names) == 1 else names[-1]
PickedNameFirstSegment(names) == names[1]
PickedName(names) == IF Len(names) = 1 THEN names[1] ELSE names[Len(names)]

\* One pass of the loop body over entry = [name, module].
LoopBodyRemoveFirst(lora_module_names, entry) ==
    LET removed == IF "lm_head" \in lora_module_names
                   THEN lora_module_names \ {"lm_head"}
                   ELSE lora_module_names
    IN  IF IsLinear4bit(entry.module)
        THEN removed \cup {PickedName(Split(entry.name))}
        ELSE removed
LoopBody(lora_module_names, entry) ==
    LET added == IF IsLinear4bit(entry.module)
                 THEN lora_module_names \cup {PickedName(Split(entry.name))}
                 ELSE lora_module_names
    IN  IF "lm_head" \in added THEN added \ {"lm_head"} ELSE added

RECURSIVE LoopFrom(_, _, _)
LoopFrom(named, i, lora_module_names) ==
    IF i > Len(named) THEN lora_module_names
    ELSE LoopFrom(named, i + 1, LoopBody(lora_module_names, named[i]))

\* The set the loop leaves in lora_module_names.
LoraModuleNames(named) == LoopFrom(named, 1, {})

\* list(a_set): the elements once each, in an order the caller cannot choose.
ListsOf(S) == {s \in [1..Cardinality(S) -> S] : Range(s) = S}

find_all_linear_names(named) == ListsOf(LoraModuleNames(named))

\* ------------------------------------------------------------- inputs

\* Sublayer names the models are built from.
ModuleNames ==
    { <<>>,
      <<"lm_head">>,
      <<"q_proj">>,
      <<"model", ".", "lm_head">>,
      <<"model", ".", "layers", ".", "q_proj">>,
      <<"lm_head", ".", "v_proj">> }

ModuleKinds == {"Linear4bit", "Linear"}

NamedModule == [name : ModuleNames, module : ModuleKinds]

\* named_modules() of a model: sublayers under distinct names, in any order.
ModuleLists(maxLen) ==
    UNION {{s \in [1..n -> NamedModule] :
                \A i, j \in 1..n : i # j => s[i].name # s[j].name}
           : n \in 0..maxLen}

\* The models the registry may return for model_id: one whose head is kept
\* unquantized and one whose head is quantized too.
Architectures ==
    { << [name |-> <<>>, module |-> "Linear"],
         [name |-> <<"model", ".", "layers", ".", "q_proj">>, module |-> "Linear4bit"],
         [name |-> <<"lm_head">>, module |-> "Linear"] >>,
      << [name |-> <<"lm_head", ".", "v_proj">>, module |-> "Linear4bit"],
         [name |-> <<"model", ".", "layers", ".", "q_proj">>, module |-> "Linear4bit"],
         [name |-> <<"lm_head">>, module |-> "Linear4bit"] >> }

\* -------------------------------------------------------------- state

VARIABLES
    pc,              \* index into Program of the cell to run next; 0 once a cell raised
    failedAt,        \* the cell that raised, "" while none has
    cells_run,       \* the cells entered so far, in order
    calls,           \* the save/release/load calls made so far, in order
    data,            \* number of items in the dataset file
    text,            \* per row of main_df, its prompt/completion text
    main_df, train_data, temp_data, eval_data, test_data,
    rngTable,        \* permutations the seeded generator has returned
    prev_splits,     \* partitions of earlier executions of the split cell
    named_modules,   \* model.named_modules()
    modules,         \* result of find_all_linear_names(model)
    model, base_model, merged_model,   \* model handles (0: unbound)
    lifecycle,       \* per handle, the states it has been in, in order
    handle_id,       \* per handle, the identifier it was loaded from
    train_dataset, eval_dataset,
    trainer_model,   \* handle held by the trainer (0: no trainer)
    training,        \* "idle", "running", "ended"
    global_step, log_history, evaluated, last_checkpoint,
    last_loss,       \* the training loss last logged: "none", "high" or "low"
    disk,            \* directories written: [dir, kind, base]
    merged_from,     \* the adapter directories read by the merge, as on disk
    generated_with   \* handle the final completion was generated with (0: none)

vars == << pc, failedAt, cells_run, calls, data, text, main_df, train_data, temp_data,
           eval_data, test_data, rngTable, prev_splits, named_modules, modules,
           model, base_model, merged_model, lifecycle, handle_id, train_dataset,
           eval_dataset, trainer_model, training, global_step, log_history,
           evaluated, last_checkpoint, last_loss, disk, merged_from, generated_with >>

dataVars == << data, text, main_df >>
splitVars == << train_data, temp_data, eval_data, test_data, rngTable >>
handleVars == << model, base_model, merged_model, lifecycle, handle_id >>
trainerVars == << train_dataset, eval_dataset, trainer_model >>
loopVars == << training, global_step, log_history, evaluated, last_checkpoint,
              last_loss >>

Handles == {1, 2}

\* The cells of the notebook that act on the run, in file order.
ProgramReleaseFirst ==
    << "login", "load_model", "load_data", "split", "prepare_kbit",
       "find_modules", "get_peft_model", "build_trainer", "train",
       "gc_collect", "save_adapter", "empty_cache", "merge", "generate" >>
Program ==
    << "login", "load_model", "load_data", "split", "prepare_kbit",
       "find_modules", "get_peft_model", "build_trainer", "train",
       "save_adapter", "gc_collect", "empty_cache", "merge", "generate" >>

CellIndex(cell) == CHOOSE i \in DOMAIN Program : Program[i] = cell

At(cell) == pc \in DOMAIN Program /\ Program[pc] = cell

\* An exception is caught nowhere: it ends the run.
AfterErrorContinue(i) == i + 1
AfterError(i) == 0

\* The cell at pc is entered and runs to its end.
Enter(cell) == /\ At(cell)
               /\ cells_run' = Append(cells_run, cell)

Done == /\ pc' = pc + 1
        /\ failedAt' = failedAt

Raise(cell) == /\ pc' = AfterError(pc)
               /\ failedAt' = cell

\* from_pretrained builds a new object: the first handle not in use.
NewHandle == CHOOSE h \in Handles :
                /\ lifecycle[h] = <<>>
                /\ \A g \in Handles : lifecycle[g] = <<>> => h <= g

InitWith(rows, df, named, start) ==
    /\ pc = start
    /\ failedAt = ""
    /\ cells_run = <<>>
    /\ calls = <<>>
    /\ data = rows
    /\ main_df = df
    /\ text = [i \in DOMAIN df |-> i]
    /\ train_data = <<>> /\ temp_data = <<>> /\ eval_data = <<>> /\ test_data = <<>>
    /\ rngTable = [k \in {} |-> <<>>]
    /\ prev_splits = <<>>
    /\ named_modules = named
    /\ modules = <<>>
    /\ model = 0 /\ base_model = 0 /\ merged_model = 0
    /\ lifecycle = [h \in Handles |-> <<>>]
    /\ handle_id = [h \in Handles |-> ""]
    /\ train_dataset = <<>> /\ eval_dataset = <<>>
    /\ trainer_model = 0
    /\ training = "idle"
    /\ global_step = 0
    /\ log_history = <<>>
    /\ evaluated = {}
    /\ last_checkpoint = 0
    /\ last_loss = "none"
    /\ disk = {}
    /\ merged_from = {}
    /\ generated_with = 0

Init == \E rows \in 0..MaxRows : InitWith(rows, <<>>, <<>>, 1)

\* -------------------------------------------------------------- cells

\* login(token=hf_token)
Login ==
    /\ Enter("login")
    /\ \/ Done
       \/ Raise("login")
    /\ UNCHANGED << calls, dataVars, splitVars, prev_splits, named_modules, modules,
                    handleVars, trainerVars, loopVars, disk, generated_with, merged_from >>

\* model = AutoModelForCausalLM.from_pretrained(model_id, quantization_config=...)
LoadModel ==
    /\ Enter("load_model")
    /\ \/ /\ \E arch \in Architectures : named_modules' = arch
          /\ model' = NewHandle
          /\ lifecycle' = [lifecycle EXCEPT ![NewHandle] = <<"quantized-loaded">>]
          /\ handle_id' = [handle_id EXCEPT ![NewHandle] = model_id]
          /\ calls' = Append(calls, "from_pretrained_4bit")
          /\ Done
       \/ /\ Raise("load_model")
          /\ UNCHANGED << named_modules, model, lifecycle, handle_id, calls >>
    /\ UNCHANGED << dataVars, splitVars, prev_splits, modules, base_model,
                    merged_model, trainerVars, loopVars, disk, generated_with, merged_from >>

\* The texts a dataset file of n items may hold: all different, or every item
\* written twice (items 1 and 2 alike, 3 and 4 alike, ...).
FileTexts(n) == {[i \in 1..n |-> i], [i \in 1..n |-> (i + 1) \div 2]}

\* json.load, the per-item projection, converted_data[0], json.dump, pd.read_json.
\* The body of the projection is not part of the source: it yields one record
\* per item or raises.  With no item, converted_data[0] raises IndexError.
LoadData ==
    /\ Enter("load_data")
    /\ \/ /\ data > 0
          /\ main_df' = [i \in 1..data |-> i]
          /\ text' \in FileTexts(data)
          /\ disk' = disk \cup {[dir |-> "/content/dataset_2k_prompt_completion.json",
                                 kind |-> "dataset", base |-> ""]}
          /\ Done
       \/ /\ Raise("load_data")
          /\ UNCHANGED << main_df, text, disk >>
    /\ UNCHANGED << calls, data, splitVars, prev_splits, named_modules, modules,
                    handleVars, trainerVars, loopVars, generated_with, merged_from >>

\* the two train_test_split calls
SplitData ==
    /\ Enter("split")
    /\ \E o \in SplitCell(main_df, rngTable) :
          /\ train_data' = o.train_data
          /\ temp_data' = o.temp_data
          /\ eval_data' = o.eval_data
          /\ test_data' = o.test_data
          /\ rngTable' = o.table
          /\ IF o.raised THEN Raise("split") ELSE Done
    /\ UNCHANGED << calls, dataVars, prev_splits, named_modules, modules, handleVars,
                    trainerVars, loopVars, disk, generated_with, merged_from >>

\* model.gradient_checkpointing_enable(); prepare_model_for_kbit_training(model)
PrepareKbit ==
    /\ Enter("prepare_kbit")
    /\ Done
    /\ UNCHANGED << calls, dataVars, splitVars, prev_splits, named_modules, modules,
                    handleVars, trainerVars, loopVars, disk, generated_with, merged_from >>

\* modules = find_all_linear_names(model)
FindModules ==
    /\ Enter("find_modules")
    /\ \E found \in find_all_linear_names(named_modules) : modules' = found
    /\ Done
    /\ UNCHANGED << calls, dataVars, splitVars, prev_splits, named_modules,
                    handleVars, trainerVars, loopVars, disk, generated_with, merged_from >>

\* model = get_peft_model(model, lora_config)
GetPeftModel ==
    /\ Enter("get_peft_model")
    /\ \/ /\ lifecycle' = [lifecycle EXCEPT ![model] = Append(@, "adapter-wrapped")]
          /\ Done
       \/ /\ Raise("get_peft_model")
          /\ UNCHANGED lifecycle
    /\ UNCHANGED << calls, dataVars, splitVars, prev_splits, named_modules, modules,
                    model, base_model, merged_model, handle_id, trainerVars, loopVars,
                    disk, generated_with, merged_from >>

\* train_dataset, eval_dataset, TrainingArguments, SFTTrainer
BuildTrainer ==
    /\ Enter("build_trainer")
    /\ train_dataset' = FromPandas(train_data, text)
    /\ eval_dataset' = FromPandas(temp_data, text)
    /\ trainer_model' = model
    /\ Done
    /\ UNCHANGED << calls, dataVars, splitVars, prev_splits, named_modules, modules,
                    handleVars, loopVars, disk, generated_with, merged_from >>

\* ----------------------------------------------------- trainer.train()

\* Batches in one pass over train_dataset (the last one may be short).
StepsPerEpoch ==
    (Len(train_dataset) + per_device_train_batch_size - 1)
        \div per_device_train_batch_size

\* max_steps > 0 overrides num_train_epochs, and no callback stops early: the
\* loop stops on the step count alone, whatever the loss.
ShouldStopEpochBound(step) ==
    step >= max_steps \/ step >= num_train_epochs * StepsPerEpoch
ShouldStop(step) == step >= max_steps

\* train() is called without resume_from_checkpoint.
resume_from_checkpoint == FALSE
StartStep == IF resume_from_checkpoint THEN last_checkpoint ELSE 0

TrainBegin ==
    /\ Enter("train")
    /\ training = "idle"
    /\ training' = "running"
    /\ global_step' = StartStep
    /\ calls' = Append(calls, "trainer.train")
    /\ UNCHANGED << pc, failedAt, dataVars, splitVars, prev_splits,
                    named_modules, modules, handleVars, trainerVars, log_history,
                    evaluated, last_checkpoint, last_loss, disk, generated_with, merged_from >>

TrainStep ==
    /\ At("train")
    /\ training = "running"
    /\ ~ShouldStop(global_step)
    /\ \/ /\ global_step' = global_step + 1
          /\ log_history' = IF global_step' % logging_steps = 0
                            THEN Append(log_history, global_step')
                            ELSE log_history
          /\ IF global_step' % logging_steps = 0
             THEN last_loss' \in {"high", "low"}
             ELSE last_loss' = last_loss
          /\ evaluated' = IF global_step' % eval_steps = 0
                          THEN evaluated \cup Range(eval_dataset)
                          ELSE evaluated
          /\ last_checkpoint' = IF global_step' % StepsPerEpoch = 0
                                THEN global_step'
                                ELSE last_checkpoint
          /\ UNCHANGED << pc, failedAt >>
       \/ /\ Raise("train")
          /\ UNCHANGED << global_step, log_history, evaluated, last_checkpoint,
                          last_loss >>
    /\ UNCHANGED << cells_run, calls, dataVars, splitVars, prev_splits, named_modules,
                    modules, handleVars, trainerVars, training, disk, generated_with, merged_from >>

TrainEnd ==
    /\ At("train")
    /\ training = "running"
    /\ ShouldStop(global_step)
    /\ training' = "ended"
    /\ lifecycle' = [lifecycle EXCEPT ![trainer_model] = Append(@, "trained")]
    /\ Done
    /\ UNCHANGED << cells_run, calls, dataVars, splitVars, prev_splits, named_modules,
                    modules, model, base_model, merged_model, handle_id, trainerVars,
                    global_step, log_history, evaluated, last_checkpoint, last_loss,
                    disk, generated_with, merged_from >>

\* ------------------------------------------------ save, release, merge

\* trainer.model.save_pretrained(new_model)
SaveAdapter ==
    /\ Enter("save_adapter")
    /\ \/ /\ disk' = disk \cup {[dir |-> new_model, kind |-> "adapter",
                                 base |-> handle_id[trainer_model]]}
          /\ calls' = Append(calls, "save_pretrained")
          /\ Done
       \/ /\ Raise("save_adapter")
          /\ UNCHANGED << disk, calls >>
    /\ UNCHANGED << dataVars, splitVars, prev_splits, named_modules, modules,
                    handleVars, trainerVars, loopVars, generated_with, merged_from >>

\* gc.collect()
GcCollect ==
    /\ Enter("gc_collect")
    /\ calls' = Append(calls, "gc.collect")
    /\ Done
    /\ UNCHANGED << dataVars, splitVars, prev_splits, named_modules, modules,
                    handleVars, trainerVars, loopVars, disk, generated_with, merged_from >>

\* torch.cuda.empty_cache(); gc.collect()
EmptyCache ==
    /\ Enter("empty_cache")
    /\ calls' = calls \o <<"torch.cuda.empty_cache", "gc.collect">>
    /\ Done
    /\ UNCHANGED << dataVars, splitVars, prev_splits, named_modules, modules,
                    handleVars, trainerVars, loopVars, disk, generated_with, merged_from >>

\* The handle the adapters are merged into: a second, freshly loaded model.
MergeTargetTrained == trainer_model
MergeTarget == NewHandle

\* base_model = from_pretrained(...); PeftModel.from_pretrained(base_model, new_model);
\* merge_and_unload(); save_pretrained("merged_model")
Merge ==
    /\ Enter("merge")
    /\ \/ /\ base_model' = MergeTarget
          /\ handle_id' = [handle_id EXCEPT ![MergeTarget] = merge_base_id]
          /\ IF \E d \in disk : d.dir = merge_adapter_dir /\ d.kind = "adapter"
             THEN /\ lifecycle' = [lifecycle EXCEPT ![MergeTarget] =
                                      @ \o <<"base", "adapter-wrapped", "merged">>]
                  /\ merged_model' = MergeTarget
                  /\ merged_from' = {d \in disk : d.dir = merge_adapter_dir
                                                   /\ d.kind = "adapter"}
                  /\ calls' = calls \o <<"from_pretrained_fp16", "PeftModel.from_pretrained",
                                         "merge_and_unload">>
                  /\ disk' = disk \cup {[dir |-> "merged_model", kind |-> "model",
                                         base |-> merge_base_id]}
                  /\ Done
             ELSE /\ lifecycle' = [lifecycle EXCEPT ![MergeTarget] = @ \o <<"base">>]
                  /\ calls' = Append(calls, "from_pretrained_fp16")
                  /\ Raise("merge")
                  /\ UNCHANGED << merged_model, merged_from, disk >>
       \/ /\ Raise("merge")
          /\ UNCHANGED << base_model, handle_id, lifecycle, merged_model, merged_from,
                          calls, disk >>
    /\ UNCHANGED << dataVars, splitVars, prev_splits, named_modules, modules, model,
                    trainerVars, loopVars, generated_with >>

\* result = get_completion(query=..., model=merged_model, tokenizer=tokenizer)
Generate ==
    /\ Enter("generate")
    /\ \/ /\ generated_with' = merged_model
          /\ Done
       \/ /\ Raise("generate")
          /\ UNCHANGED generated_with
    /\ UNCHANGED << calls, dataVars, splitVars, prev_splits, named_modules, modules,
                    handleVars, trainerVars, loopVars, disk, merged_from >>

Next ==
    \/ Login
    \/ LoadModel
    \/ LoadData
    \/ SplitData
    \/ PrepareKbit
    \/ FindModules
    \/ GetPeftModel
    \/ BuildTrainer
    \/ TrainBegin
    \/ TrainStep
    \/ TrainEnd
    \/ SaveAdapter
    \/ GcCollect
    \/ EmptyCache
    \/ Merge
    \/ Generate

Spec == Init /\ [][Next]_vars

\* The cells run one after another and each runs to its end.
FairSpec == Spec /\ WF_vars(Next)

\* ------------------------------------ the split cell on its own, re-run

InitSplit ==
    \E rows \in 0..MaxSplitRows :
        InitWith(rows, [i \in 1..rows |-> i], <<>>, CellIndex("split"))

\* The cell is executed again on the same data frame.
RerunSplit ==
    /\ pc = CellIndex("split") + 1
    /\ Len(prev_splits) < MaxReruns
    /\ prev_splits' = Append(prev_splits, << train_data, eval_data, test_data >>)
    /\ pc' = CellIndex("split")
    /\ train_data' = <<>> /\ temp_data' = <<>> /\ eval_data' = <<>> /\ test_data' = <<>>
    /\ UNCHANGED << failedAt, cells_run, calls, dataVars, rngTable, named_modules,
                    modules, handleVars, trainerVars, loopVars, disk, generated_with, merged_from >>

NextSplit == SplitData \/ RerunSplit

SpecSplit == InitSplit /\ [][NextSplit]_vars

\* ---------------------------------- find_all_linear_names on its own

InitFind ==
    \E named \in ModuleLists(MaxModules) :
        InitWith(0, <<>>, named, CellIndex("find_modules"))

NextFind == FindModules

SpecFind == InitFind /\ [][NextFind]_vars

\* ------------------------------------------------------------- claims

\* The split cell has been executed (to its end, or until it raised).
SplitRan == "split" \in Range(cells_run) /\ pc # CellIndex("split")

\* All three partitions are bound: both calls returned.
PartitionsBound == SplitRan /\ failedAt # "split"

IsPrefix(s, t) == Len(s) <= Len(t) /\ \A i \in DOMAIN s : s[i] = t[i]

\* C1: whenever the two train_test_split calls have returned, the train,
\* validation and test partitions are pairwise disjoint, repeat no row, and
\* together hold exactly the rows of the full data frame.
C1_PartitionsDisjointAndCover ==
    PartitionsBound =>
        /\ Range(train_data) \cap Range(eval_data) = {}
        /\ Range(train_data) \cap Range(test_data) = {}
        /\ Range(eval_data) \cap Range(test_data) = {}
        /\ Range(train_data) \cup Range(eval_data) \cup Range(test_data) = Range(main_df)
        /\ NoDuplicates(train_data \o eval_data \o test_data)

C1_Witness ==
    /\ PartitionsBound
    /\ Len(main_df) >= 10
    /\ Len(test_data) >= 1 /\ Len(eval_data) >= 1

\* C2: the evaluation dataset given to the trainer is the validation partition
\* eval_data, and training-time evaluation reads no row of the test partition.
C2_EvalDatasetIsValidationPartition ==
    trainer_model # 0 =>
        /\ eval_dataset = FromPandas(eval_data, text)
        /\ evaluated \cap Range(FromPandas(test_data, text)) = {}

\* |10 * size - tenths * N| <= 10: size is within 1 of (tenths / 10) * N.
WithinOne(size, tenths, n) ==
    /\ 10 * size - tenths * n <= 10
    /\ tenths * n - 10 * size <= 10

SizesAsClaimed ==
    /\ WithinOne(Len(train_data), 8, Len(main_df))
    /\ WithinOne(Len(eval_data), 1, Len(main_df))
    /\ WithinOne(Len(test_data), 1, Len(main_df))
    /\ Len(train_data) + Len(eval_data) + Len(test_data) = Len(main_df)

\* C3 as stated: for every N >= 2 the split cell produces three partitions
\* whose sizes are within 1 of 0.8 N, 0.1 N and 0.1 N and add up to N.
C3_SizesForEveryNFromTwo ==
    (SplitRan /\ Len(main_df) >= 2) => (PartitionsBound /\ SizesAsClaimed)

\* C3 amended: for every N >= 6 the split cell produces three partitions whose
\* sizes are within 1 of 0.8 N, 0.1 N and 0.1 N and add up to N; for N < 6 a
\* train_test_split call raises and the three partitions are not produced.
C3_SizesForEveryNFromSix ==
    SplitRan =>
        /\ Len(main_df) >= 6 => (PartitionsBound /\ SizesAsClaimed)
        /\ Len(main_df) < 6 => (failedAt = "split" /\ test_data = <<>> /\ eval_data = <<>>)

C3_Witness ==
    /\ PartitionsBound
    /\ Len(main_df) = 11
    /\ Len(train_data) = 8 /\ Len(eval_data) = 1 /\ Len(test_data) = 2

\* C4: executing the split cell again on the same data frame, in the same
\* order and with the same seed, yields the same three partitions as every
\* earlier execution.
C4_SplitDeterministic ==
    PartitionsBound =>
        \A i \in DOMAIN prev_splits :
            prev_splits[i] = << train_data, eval_data, test_data >>

C4_Witness ==
    /\ PartitionsBound
    /\ Len(prev_splits) >= 1
    /\ Len(main_df) >= 10

FindRan == "find_modules" \in Range(cells_run)

\* C5: the list returned by find_all_linear_names never contains 'lm_head'.
C5_HeadNeverReturned ==
    FindRan => "lm_head" \notin Range(modules)

\* The head is a quantized linear layer and is the last sublayer traversed.
C5_Witness ==
    /\ FindRan
    /\ Len(named_modules) >= 2
    /\ named_modules[Len(named_modules)] = [name |-> <<"lm_head">>, module |-> "Linear4bit"]
    /\ modules # <<>>

\* C6: the training loop never passes max_steps; when it ends it has made
\* exactly max_steps steps, whatever the number of steps in one epoch and
\* whatever the loss, and has logged one training-loss record at every
\* multiple of logging_steps up to max_steps; and a training loop that has
\* started always ends or raises.
C6_FixedBudgetTermination ==
    /\ [](global_step <= max_steps)
    /\ [](training = "ended" =>
            /\ global_step = max_steps
            /\ log_history = [k \in 1..(max_steps \div logging_steps) |-> k * logging_steps])
    /\ (training = "running") ~> (training = "ended" \/ failedAt = "train")

\* Training ended at max_steps although one epoch is far shorter than
\* max_steps and the loss was still high.
C6_Witness ==
    /\ training = "ended"
    /\ last_loss = "high"
    /\ global_step = max_steps
    /\ num_train_epochs * StepsPerEpoch < max_steps
    /\ Len(log_history) = max_steps \div logging_steps

\* C7: once a cell has raised nothing changes any more (no later cell runs,
\* no training step is taken), the cell that raised is the last one entered,
\* no cell is ever entered twice, and training starts at step 0, never from
\* a checkpoint.
C7_FailureHaltsRun ==
    /\ [](NoDuplicates(cells_run))
    /\ [](failedAt # "" =>
            /\ pc = 0
            /\ cells_run # <<>>
            /\ cells_run[Len(cells_run)] = failedAt)
    /\ [][failedAt # "" => UNCHANGED vars]_vars
    /\ [][(training = "idle" /\ training' = "running") => global_step' = 0]_vars

\* A training step raised after a checkpoint had been written.
C7_Witness ==
    /\ failedAt = "train"
    /\ global_step > 0
    /\ last_checkpoint > 0
    /\ pc = 0

\* C8 as stated: one handle only; the handle that is merged and used for
\* generation is the handle that was quantized-loaded, wrapped and trained.
C8_SingleHandle ==
    /\ \A h \in Handles : lifecycle[h] # <<>> => h = model
    /\ merged_model # 0 => merged_model = model
    /\ generated_with # 0 => generated_with = model

\* C8 amended: there are two handles.  The first is loaded quantized and moves
\* quantized-loaded, adapter-wrapped, trained in that order and no further; the
\* merge loads a second handle, which moves base, adapter-wrapped, merged in
\* that order and is the one used for generation.  No step changes the state
\* of more than one handle.
C8_TwoHandles ==
    /\ [](/\ model # 0 =>
               IsPrefix(lifecycle[model],
                        <<"quantized-loaded", "adapter-wrapped", "trained">>)
          /\ base_model # 0 =>
               /\ base_model # model
               /\ IsPrefix(lifecycle[base_model], <<"base", "adapter-wrapped", "merged">>)
               /\ lifecycle[model] = <<"quantized-loaded", "adapter-wrapped", "trained">>
          /\ \A h \in Handles : lifecycle[h] # <<>> => h \in {model, base_model}
          /\ trainer_model \in {0, model}
          /\ merged_model # 0 =>
               /\ merged_model = base_model
               /\ lifecycle[merged_model] = <<"base", "adapter-wrapped", "merged">>
          /\ generated_with # 0 => generated_with = merged_model)
    /\ [][Cardinality({h \in Handles : lifecycle'[h] # lifecycle[h]}) <= 1]_vars

C8_Witness ==
    /\ generated_with # 0
    /\ generated_with = base_model
    /\ lifecycle[model] = <<"quantized-loaded", "adapter-wrapped", "trained">>
    /\ lifecycle[base_model] = <<"base", "adapter-wrapped", "merged">>

ReleaseCalls == {"gc.collect", "torch.cuda.empty_cache"}

ReleasesBefore(i) == SelectSeq(SubSeq(calls, 1, i - 1), LAMBDA c : c \in ReleaseCalls)

\* C9: every explicit memory-release call comes after the adapter weights were
\* saved and before the second copy of the base model is loaded, and when that
\* copy is loaded the three release calls have been made.
C9_ReleaseBetweenSaveAndMerge ==
    \A i \in DOMAIN calls :
        /\ calls[i] \in ReleaseCalls =>
              /\ \E j \in 1..(i - 1) : calls[j] = "save_pretrained"
              /\ \A j \in 1..(i - 1) : calls[j] # "from_pretrained_fp16"
        /\ calls[i] = "from_pretrained_fp16" =>
              ReleasesBefore(i) = <<"gc.collect", "torch.cuda.empty_cache", "gc.collect">>

C9_Witness ==
    /\ \E i \in DOMAIN calls : calls[i] = "from_pretrained_fp16"
    /\ Len(SelectSeq(calls, LAMBDA c : c \in ReleaseCalls)) = 3

LastSegment(name) == Split(name)[Len(Split(name))]

\* C10: find_all_linear_names returns, each once, exactly the last
\* dot-separated segments of the names of the Linear4bit sublayers, without
\* 'lm_head'; the set depends on the sublayers only, not on their order.
C10_ExactTargetSet ==
    FindRan =>
        /\ Range(modules) =
              {LastSegment(e.name) :
                  e \in {x \in Range(named_modules) : x.module = "Linear4bit"}}
              \ {"lm_head"}
        /\ NoDuplicates(modules)

\* Two quantized sublayers share a last segment, one sublayer is not quantized.
C10_Witness ==
    /\ FindRan
    /\ Len(modules) = 1
    /\ Cardinality({x \in Range(named_modules) : x.module = "Linear4bit"}) >= 2
    /\ \E x \in Range(named_modules) : x.module = "Linear"

\* C11: once the trainer is built, no record of train_dataset is a record of
\* eval_dataset, whatever the dataset file holds (repeated texts included).
C11_TrainEvalShareNoRecord ==
    trainer_model # 0 =>
        Range(train_dataset) \cap Range(eval_dataset) = {}

\* The file repeats a text, one copy went to train_dataset and the other to
\* eval_dataset, and the evaluation has run.
C11_Witness ==
    /\ trainer_model # 0
    /\ evaluated # {}
    /\ \E r \in Range(train_dataset) : \E e \in Range(eval_dataset) : r.text = e.text

\* C12: the model loaded for the merge has the identifier of the model the
\* adapters were trained against, and the merge reads exactly the adapter
\* directory the trained adapters were saved to, whose recorded base is that
\* identifier.
C12_MergeMatchesTraining ==
    /\ base_model # 0 => handle_id[base_model] = handle_id[trainer_model]
    /\ merged_model # 0 =>
          /\ merged_from = {[dir |-> new_model, kind |-> "adapter",
                             base |-> handle_id[trainer_model]]}
          /\ \A d \in merged_from : d.base = handle_id[merged_model]

C12_Witness ==
    /\ merged_model # 0
    /\ training = "ended"
    /\ merged_from # {}
    /\ handle_id[merged_model] = model_id

====
